---- MODULE Spec2Model ----
(***************************************************************************)
(* CAN -> NetworkTables bridge (tools/can_nt_bridge.backup.py, the         *)
(* composite-key generation of the tool, and tools/can_nt_bridge.py, the   *)
(* deviceId-only generation).                                              *)
(*                                                                         *)
(* One step of the model is one pass of main's `while True` loop: read the *)
(* clock, receive at most one frame, then evaluate publish, summary, the   *)
(* two watchdogs, the CSV log and the quick check, in the order of the     *)
(* source.  Floats (seconds) are modelled as integers in one fixed unit.   *)
(* Optional[x] is modelled as a sequence: <<>> is None, <<v>> is v.        *)
(***************************************************************************)
EXTENDS Integers, Sequences, FiniteSets, TLC

(***************************************************************************)
(* Bounds of the model.                                                    *)
(***************************************************************************)
\* The reading of time.time() when main starts.  time.time() is seconds
\* since 1970, so it is larger than every configured period.
Epoch == 10
\* The clock readings of a run lie in Epoch .. Epoch + MaxElapsed.
MaxElapsed == 2
\* At most this many data frames are received in a run.
MaxFrames == 2
\* At most this many error frames are received in a run.
MaxErrors == 1
\* _format_status is probed with timestamps and timeouts in 0 .. MaxProbe.
MaxProbe == 5

None == <<>>
Some(v) == <<v>>
IsNone(o) == o = <<>>
Val(o) == o[1]

Times == Epoch .. (Epoch + MaxElapsed)

\* dict.get(key): None when the key has no entry.
Get(d, k) == IF k \in DOMAIN d THEN Some(d[k]) ELSE None
\* dict.get(key, 0)
GetOr0(d, k) == IF k \in DOMAIN d THEN d[k] ELSE 0
\* d[key] = v, creating the entry when absent.
Put(d, k, v) == [x \in (DOMAIN d) \cup {k} |-> IF x = k THEN v ELSE d[x]]

\* x >> n as x \div 2^n and x & (2^w - 1) as x % 2^w, on non-negative integers:
\* 2^24 = 16777216, 2^16 = 65536, 2^10 = 1024, 2^6 = 64; 0x1F + 1 = 32,
\* 0xFF + 1 = 256, 0x3F + 1 = 64, 0x0F + 1 = 16.

(***************************************************************************)
(* Frame decoding.                                                         *)
(***************************************************************************)
\* return arb_id & 0x3F
_device_id_from_arb_id(arb_id) == arb_id % 64

\* A decode that masks the device type with 0x0F instead of 0x1F.
DecodeNarrowType(arb_id) ==
    << (arb_id \div 65536) % 256, (arb_id \div 16777216) % 16,
       (arb_id \div 1024) % 64, (arb_id \div 64) % 16, arb_id % 64 >>

\* A decode that returns (device_type, manufacturer, ...) swapped.
DecodeSwapped(arb_id) ==
    << (arb_id \div 16777216) % 32, (arb_id \div 65536) % 256,
       (arb_id \div 1024) % 64, (arb_id \div 64) % 16, arb_id % 64 >>

\* returns (manufacturer, device_type, api_class, api_index, device_id)
_decode_ext_id(arb_id) ==
    LET device_type == (arb_id \div 16777216) % 32
        manufacturer == (arb_id \div 65536) % 256
        api_class == (arb_id \div 1024) % 64
        api_index == (arb_id \div 64) % 16
        device_id == arb_id % 64
    IN  << manufacturer, device_type, api_class, api_index, device_id >>

\* The identifier whose fields are the given ones (FRC extended-id layout).
ArbId(device_type, manufacturer, api_class, api_index, device_id) ==
    device_type * 16777216 + manufacturer * 65536 + api_class * 1024
        + api_index * 64 + device_id

\* A classification that never ages: a device once seen is OK for ever.
FormatStatusNeverStale(ts, now, timeout) ==
    IF IsNone(ts) THEN << "MISSING", None, TRUE >>
    ELSE << "OK", Some(now - Val(ts)), FALSE >>

(***************************************************************************)
(* Freshness classification.                                               *)
(***************************************************************************)
\* A classifier whose boundary is age >= timeout.
FormatStatusGe(ts, now, timeout) ==
    IF IsNone(ts) THEN << "MISSING", None, TRUE >>
    ELSE LET age == now - Val(ts)
         IN  IF age >= timeout THEN << "STALE", Some(age), TRUE >>
             ELSE << "OK", Some(age), FALSE >>

\* returns (status, age, is_missing)
_format_status(ts, now, timeout) ==
    IF IsNone(ts) THEN << "MISSING", None, TRUE >>
    ELSE LET age == now - Val(ts)
         IN  IF age > timeout THEN << "STALE", Some(age), TRUE >>
             ELSE << "OK", Some(age), FALSE >>

(***************************************************************************)
(* Configuration: the device list, the explicit group table and the        *)
(* command-line arguments, as main receives them.                          *)
(***************************************************************************)
Dev(label, manufacturer, device_type, device_id, group) ==
    [label |-> label, manufacturer |-> manufacturer, device_type |-> device_type,
     device_id |-> device_id, group |-> group]

\* Three devices share deviceId 10 (different manufacturer or type); one has
\* no group.
device_specs ==
    << Dev("NEO 10", 5, 2, 10, "neos"),
       Dev("KRAK 10", 4, 2, 10, "krakens"),
       Dev("CANC 10", 4, 7, 10, ""),
       Dev("NEO 22", 5, 2, 22, "neos") >>

\* args.device_ids: the legacy ids to report; 7 has no configured device.
device_ids == << 10, 22, 7 >>

StrItem(s) == [kind |-> "str", v |-> s]
IntItem(n) == [kind |-> "int", v |-> n]

\* The "groups" table of the configuration file after _coerce_groups, when it
\* lists groups explicitly: labels and device ids, one group that resolves to
\* nothing, one key named twice, one group name with a comma in it.
ExplicitGroupsRaw ==
    << [name |-> "drive", items |-> << StrItem("NEO 10"), IntItem(10) >>],
       [name |-> "ghost", items |-> << StrItem("no such label"), IntItem(7) >>],
       [name |-> "aux", items |-> << IntItem(22), StrItem("KRAK 10") >>],
       [name |-> "front,left", items |-> << StrItem("CANC 10") >>] >>

\* The configurations a run is started with: the arguments and the raw group
\* table (empty: groups come from the device list).  log_csv is TRUE for a
\* non-empty path.
ConfigChoices ==
    { [args |-> [timeout |-> 1, publish_period |-> 1, print_summary_period |-> 2,
                 no_traffic_secs |-> 2, no_rio_secs |-> 1, log_csv |-> TRUE,
                 log_period |-> 1, quick_check |-> FALSE, quick_wait |-> 1,
                 print_publish |-> TRUE],
       groups_raw |-> << >>],
      [args |-> [timeout |-> 0, publish_period |-> 0, print_summary_period |-> 1,
                 no_traffic_secs |-> 0, no_rio_secs |-> 1, log_csv |-> TRUE,
                 log_period |-> 2, quick_check |-> FALSE, quick_wait |-> 1,
                 print_publish |-> FALSE],
       groups_raw |-> ExplicitGroupsRaw],
      [args |-> [timeout |-> 1, publish_period |-> 2, print_summary_period |-> 0,
                 no_traffic_secs |-> 1, no_rio_secs |-> 0, log_csv |-> TRUE,
                 log_period |-> 0, quick_check |-> TRUE, quick_wait |-> 2,
                 print_publish |-> TRUE],
       groups_raw |-> << >>] }

KeyOf(spec) == << spec.manufacturer, spec.device_type, spec.device_id >>

\* label_map = {spec["label"]: key for spec in device_specs}
label_map ==
    LET labels == { device_specs[i].label : i \in DOMAIN device_specs }
        last(l) == CHOOSE i \in DOMAIN device_specs :
                      /\ device_specs[i].label = l
                      /\ \A j \in DOMAIN device_specs :
                            device_specs[j].label = l => j <= i
    IN  [l \in labels |-> KeyOf(device_specs[last(l)])]

RECURSIVE KeysWithId(_, _)
KeysWithId(id, i) ==
    IF i > Len(device_specs) THEN << >>
    ELSE (IF device_specs[i].device_id = id THEN << KeyOf(device_specs[i]) >> ELSE << >>)
             \o KeysWithId(id, i + 1)

\* key_by_id.setdefault(spec["device_id"], []).append(key), in spec order
key_by_id ==
    [id \in { device_specs[i].device_id : i \in DOMAIN device_specs } |->
        KeysWithId(id, 1)]

\* key_by_id.get(device_id, [])
KeysOfId(id) == IF id \in DOMAIN key_by_id THEN key_by_id[id] ELSE << >>

RECURSIVE ItemKeys(_, _)
ItemKeys(items, i) ==
    IF i > Len(items) THEN << >>
    ELSE LET item == items[i]
             ks == IF item.kind = "str"
                   THEN (IF item.v \in DOMAIN label_map
                         THEN << label_map[item.v] >> ELSE << >>)
                   ELSE KeysOfId(item.v)
         IN  ks \o ItemKeys(items, i + 1)

RECURSIVE ExplicitGroups(_, _)
ExplicitGroups(raw, i) ==
    IF i > Len(raw) THEN << >>
    ELSE LET keys == ItemKeys(raw[i].items, 1)
         IN  (IF keys # << >> THEN << [name |-> raw[i].name, keys |-> keys] >>
              ELSE << >>) \o ExplicitGroups(raw, i + 1)

RECURSIVE KeysInGroup(_, _)
KeysInGroup(name, i) ==
    IF i > Len(device_specs) THEN << >>
    ELSE (IF device_specs[i].group = name THEN << KeyOf(device_specs[i]) >> ELSE << >>)
             \o KeysInGroup(name, i + 1)

RECURSIVE SpecGroups(_)
SpecGroups(i) ==
    IF i > Len(device_specs) THEN << >>
    ELSE LET g == device_specs[i].group
             first == \A j \in 1 .. (i - 1) : device_specs[j].group # g
         IN  (IF g # "" /\ first
              THEN << [name |-> g, keys |-> KeysInGroup(g, 1)] >> ELSE << >>)
                 \o SpecGroups(i + 1)

\* The resolved groups, as a list of (name, keys) in dict order.
ResolveGroups(groups_raw) ==
    IF groups_raw # << >> THEN ExplicitGroups(groups_raw, 1) ELSE SpecGroups(1)

(***************************************************************************)
(* Aggregation and report building.                                        *)
(***************************************************************************)
\* A group loop in which a STALE key is counted neither as seen nor missing.
RECURSIVE CountGroupDropStale(_, _, _, _, _)
CountGroupDropStale(keys, i, ls, t, timeout) ==
    IF i > Len(keys) THEN << 0, 0 >>
    ELSE LET st == _format_status(Get(ls, keys[i]), t, timeout)
             rest == CountGroupDropStale(keys, i + 1, ls, t, timeout)
         IN  IF st[1] = "MISSING" THEN << rest[1], rest[2] + 1 >>
             ELSE IF st[1] = "OK" THEN << rest[1] + 1, rest[2] >>
             ELSE rest

\* A group loop that counts a key as seen whenever it has a record.
RECURSIVE CountGroupSeenIfRecord(_, _, _, _, _)
CountGroupSeenIfRecord(keys, i, ls, t, timeout) ==
    IF i > Len(keys) THEN << 0, 0 >>
    ELSE LET rest == CountGroupSeenIfRecord(keys, i + 1, ls, t, timeout)
         IN  IF keys[i] \in DOMAIN ls THEN << rest[1] + 1, rest[2] >>
             ELSE << rest[1], rest[2] + 1 >>

\* for key in keys: missing += 1 if is_missing else seen += 1
\* returns (seen, missing)
RECURSIVE CountGroup(_, _, _, _, _)
CountGroup(keys, i, ls, t, timeout) ==
    IF i > Len(keys) THEN << 0, 0 >>
    ELSE LET st == _format_status(Get(ls, keys[i]), t, timeout)
             rest == CountGroup(keys, i + 1, ls, t, timeout)
         IN  IF st[3] THEN << rest[1], rest[2] + 1 >>
             ELSE << rest[1] + 1, rest[2] >>

\* A rate that divides by one second whatever the period.
RatePerTick(count, period) == IF period > 0 THEN << count, 1 >> ELSE << 0, 1 >>

\* fps = (summary_frames / period) if period > 0 else 0.0, kept as a fraction
Rate(count, period) == IF period > 0 THEN << count, period >> ELSE << 0, 1 >>

RECURSIVE SummaryDeviceLines(_, _, _, _, _)
SummaryDeviceLines(i, ls, mc, t, timeout) ==
    IF i > Len(device_specs) THEN << >>
    ELSE LET spec == device_specs[i]
             key == KeyOf(spec)
             st == _format_status(Get(ls, key), t, timeout)
         IN  << [device_id |-> spec.device_id, label |-> spec.label,
                 count |-> GetOr0(mc, key), status |-> st[1], age |-> st[2],
                 is_missing |-> st[3]] >>
                 \o SummaryDeviceLines(i + 1, ls, mc, t, timeout)

RECURSIVE SummaryGroupLines(_, _, _, _, _)
SummaryGroupLines(gs, i, ls, t, timeout) ==
    IF i > Len(gs) THEN << >>
    ELSE LET c == CountGroup(gs[i].keys, 1, ls, t, timeout)
         IN  << [name |-> gs[i].name, seen |-> c[1], total |-> Len(gs[i].keys),
                 missing |-> c[2]] >>
                 \o SummaryGroupLines(gs, i + 1, ls, t, timeout)

\* The printed block: the pit-check line, one line per device, one per group.
SummaryBlock(devs, ls, timeout, fps, err_rate, gs, t, title) ==
    LET missing_count == Cardinality({ i \in DOMAIN devs : devs[i].is_missing })
    IN  [kind |-> "summary", title |-> title, at |-> t,
         seen |-> Len(device_specs) - missing_count, total |-> Len(device_specs),
         missing |-> missing_count, fps |-> fps, err_rate |-> err_rate,
         devices |-> devs,
         groups |-> SummaryGroupLines(gs, 1, ls, t, timeout)]

_build_summary_lines(ls, mc, timeout, fps, err_rate, gs, t, title) ==
    LET only(S) == CHOOSE x \in S : TRUE
    IN  only({ SummaryBlock(devs, ls, timeout, fps, err_rate, gs, t, title) :
                  devs \in { SummaryDeviceLines(1, ls, mc, t, timeout) } })

\* A fold step in which a STALE key overwrites an earlier OK.
LegacyStepStaleWins(acc, key, ls, mc, t, timeout) ==
    LET ts == Get(ls, key)
        st == _format_status(ts, t, timeout)
        better == ~IsNone(ts) /\ (IsNone(acc.best_ts) \/ Val(ts) > Val(acc.best_ts))
    IN  [total |-> acc.total + GetOr0(mc, key),
         best_ts |-> IF better THEN ts ELSE acc.best_ts,
         best_age |-> IF better THEN st[2] ELSE acc.best_age,
         status |-> IF st[1] = "OK" THEN "OK"
                    ELSE IF st[1] = "STALE" THEN "STALE"
                    ELSE acc.status]

\* A fold step that keeps the first timestamp found instead of the latest.
LegacyStepFirstTs(acc, key, ls, mc, t, timeout) ==
    LET ts == Get(ls, key)
        st == _format_status(ts, t, timeout)
        better == ~IsNone(ts) /\ IsNone(acc.best_ts)
    IN  [total |-> acc.total + GetOr0(mc, key),
         best_ts |-> IF better THEN ts ELSE acc.best_ts,
         best_age |-> IF better THEN st[2] ELSE acc.best_age,
         status |-> IF st[1] = "OK" THEN "OK"
                    ELSE IF st[1] = "STALE" /\ acc.status # "OK" THEN "STALE"
                    ELSE acc.status]

\* One iteration of `for key in keys` of the legacy aggregation.
LegacyStep(acc, key, ls, mc, t, timeout) ==
    LET ts == Get(ls, key)
        st == _format_status(ts, t, timeout)
        better == ~IsNone(ts) /\ (IsNone(acc.best_ts) \/ Val(ts) > Val(acc.best_ts))
    IN  [total |-> acc.total + GetOr0(mc, key),
         best_ts |-> IF better THEN ts ELSE acc.best_ts,
         best_age |-> IF better THEN st[2] ELSE acc.best_age,
         status |-> IF st[1] = "OK" THEN "OK"
                    ELSE IF st[1] = "STALE" /\ acc.status # "OK" THEN "STALE"
                    ELSE acc.status]

RECURSIVE LegacyFold(_, _, _, _, _, _, _)
LegacyFold(acc, keys, i, ls, mc, t, timeout) ==
    IF i > Len(keys) THEN acc
    ELSE LegacyFold(LegacyStep(acc, keys[i], ls, mc, t, timeout),
                    keys, i + 1, ls, mc, t, timeout)

\* -1.0 if x is None else float(x)
OrMinus1(o) == IF IsNone(o) THEN -1 ELSE Val(o)

\* Legacy entries whose `missing` flag is set only for a device never seen.
LegacyWritesMissingIfNoRecord(acc) ==
    [lastSeen |-> OrMinus1(acc.best_ts), missing |-> acc.status = "MISSING",
     msgCount |-> acc.total, status |-> acc.status,
     ageSec |-> OrMinus1(acc.best_age), type |-> "Mixed"]

\* The six legacy entries written from the result of the fold.
LegacyWrites(acc) ==
    [lastSeen |-> OrMinus1(acc.best_ts), missing |-> acc.status # "OK",
     msgCount |-> acc.total, status |-> acc.status,
     ageSec |-> OrMinus1(acc.best_age), type |-> "Mixed"]

\* The legacy aggregation of one device id: total = 0, best_ts = None,
\* best_age = None, status = "MISSING", then the fold over its keys.
LegacyEntries(device_id, ls, mc, t, timeout) ==
    LET only(S) == CHOOSE x \in S : TRUE
    IN  only({ LegacyWrites(acc) :
                  acc \in { LegacyFold([total |-> 0, best_ts |-> None,
                                        best_age |-> None, status |-> "MISSING"],
                                       KeysOfId(device_id), 1, ls, mc, t, timeout) } })

\* Per-device entries that report an age of 0 for a device never seen.
DeviceEntriesAgeZero(spec, ls, mc, t, timeout) ==
    LET key == KeyOf(spec)
        ts == Get(ls, key)
        st == _format_status(ts, t, timeout)
    IN  [label |-> spec.label, status |-> st[1],
         ageSec |-> IF IsNone(st[2]) THEN 0 ELSE Val(st[2]),
         msgCount |-> GetOr0(mc, key), lastSeen |-> OrMinus1(ts),
         manufacturer |-> key[1], deviceType |-> key[2], deviceId |-> key[3]]

\* The eight per-device entries written under dev/<mfg>/<type>/<id>/.
DeviceEntries(spec, ls, mc, t, timeout) ==
    LET key == KeyOf(spec)
        ts == Get(ls, key)
        st == _format_status(ts, t, timeout)
    IN  [label |-> spec.label, status |-> st[1], ageSec |-> OrMinus1(st[2]),
         msgCount |-> GetOr0(mc, key), lastSeen |-> OrMinus1(ts),
         manufacturer |-> key[1], deviceType |-> key[2], deviceId |-> key[3]]

\* The configured keys, and for each the spec whose entries are written last
\* (the loop over device_specs overwrites the entries of a repeated key).
spec_keys == { KeyOf(device_specs[i]) : i \in DOMAIN device_specs }

spec_of_key ==
    [k \in spec_keys |->
        device_specs[CHOOSE i \in DOMAIN device_specs :
            /\ KeyOf(device_specs[i]) = k
            /\ \A j \in DOMAIN device_specs : KeyOf(device_specs[j]) = k => j <= i]]

\* The legacy ids that are written: `if not keys: continue` skips the others.
legacy_ids == { d \in { device_ids[i] : i \in DOMAIN device_ids } : KeysOfId(d) # << >> }

\* Everything one publish writes to the table.
Publish(bec, ls, mc, t, timeout) ==
    [busErrorCount |-> bec,
     dev |-> [k \in spec_keys |-> DeviceEntries(spec_of_key[k], ls, mc, t, timeout)],
     legacy |-> [id \in legacy_ids |-> LegacyEntries(id, ls, mc, t, timeout)]]

(***************************************************************************)
(* CSV log.                                                                *)
(***************************************************************************)
RECURSIVE CsvDeviceColumns(_)
CsvDeviceColumns(i) ==
    IF i > Len(device_specs) THEN << >>
    ELSE LET key == KeyOf(device_specs[i])
         IN  << << key, "count" >>, << key, "ageSec" >>, << key, "status" >> >>
                 \o CsvDeviceColumns(i + 1)

\* text.split(","): strings are atoms here, so the one name of the
\* configurations that holds a comma is listed.
SplitOnComma(text) == IF text = "front,left" THEN << "front", "left" >> ELSE << text >>

\* The fields that f"group_{name}_{suffix}" makes in a line joined with ",":
\* one per comma-separated part of the name.
JoinedFields(name, suffix) ==
    [j \in 1 .. Len(SplitOnComma(name)) |-> << name, suffix, j >>]

RECURSIVE CsvGroupColumns(_, _)
CsvGroupColumns(gs, i) ==
    IF i > Len(gs) THEN << >>
    ELSE JoinedFields(gs[i].name, "seen") \o JoinedFields(gs[i].name, "missing")
             \o CsvGroupColumns(gs, i + 1)

\* The header line, as the list of the comma-separated fields it holds (the
\* names are joined with "," without quoting).
_write_csv_header(gs) ==
    << << "timestamp" >>, << "busErrorCount" >>, << "framesPerSec" >>,
       << "errorsPerSec" >> >> \o CsvDeviceColumns(1) \o CsvGroupColumns(gs, 1)

RECURSIVE CsvDeviceCells(_, _, _, _, _)
CsvDeviceCells(i, ls, mc, t, timeout) ==
    IF i > Len(device_specs) THEN << >>
    ELSE LET key == KeyOf(device_specs[i])
             st == _format_status(Get(ls, key), t, timeout)
         IN  << << "int", GetOr0(mc, key) >>,
                IF IsNone(st[2]) THEN << "empty" >> ELSE << "f3", Val(st[2]) >>,
                << "str", st[1] >> >>
                 \o CsvDeviceCells(i + 1, ls, mc, t, timeout)

RECURSIVE CsvGroupCells(_, _, _, _, _)
CsvGroupCells(gs, i, ls, t, timeout) ==
    IF i > Len(gs) THEN << >>
    ELSE LET c == CountGroup(gs[i].keys, 1, ls, t, timeout)
         IN  << << "int", c[1] >>, << "int", c[2] >> >>
                 \o CsvGroupCells(gs, i + 1, ls, t, timeout)

\* One data row, as the list of its cells (each tagged with its format).
_write_csv_row(timestamp, bec, fps, err_rate, ls, timeout, gs, t, mc) ==
    << << "f3", timestamp >>, << "int", bec >>, << "f2", fps >>, << "f2", err_rate >> >>
        \o CsvDeviceCells(1, ls, mc, t, timeout)
        \o CsvGroupCells(gs, 1, ls, t, timeout)

(***************************************************************************)
(* State of main.                                                          *)
(***************************************************************************)
VARIABLES
    args,               \* the parsed arguments
    groups,             \* the resolved groups
    last_seen,          \* dict key -> timestamp
    msg_count,          \* dict key -> count
    bus_error_count,
    last_publish, last_summary, last_traffic_warn, last_rio_warn, last_log,
    total_frames, summary_frames, summary_errors,
    log_handle,         \* "None", "open", "closed" or "close raised"
    csv_header_written,
    start_time,
    quick_done,
    now,                \* the clock reading of the current pass
    msg,                \* the frame received in the current pass, or None
    nt_writes,          \* what the current pass wrote to the table, or None
    console,            \* what the current pass printed, in order
    csv_lines,          \* what the current pass wrote to the log file, in order
    connected,          \* what _nt_is_connected returned in the current pass
                        \* (None also when the pass did not call it)
    bus_state,          \* "open", "shutdown" or "shutdown raised"
    pc,                 \* "loop", "finally", "returned" (main reached return 0)
                        \* or "raised" (an exception left main)
    exit_reason,        \* "none", "break", "interrupt" or "error"
    call                \* a direct call of a pure function and its result

vars == << args, groups, last_seen, msg_count, bus_error_count, last_publish,
           last_summary, last_traffic_warn, last_rio_warn, last_log, total_frames,
           summary_frames, summary_errors, log_handle, csv_header_written,
           start_time, quick_done, now, msg, nt_writes, console, csv_lines,
           connected, bus_state, pc, exit_reason, call >>

cfg_vars == << args, groups, start_time >>

loop_vars == << last_seen, msg_count, bus_error_count, last_publish, last_summary,
                last_traffic_warn, last_rio_warn, last_log, total_frames,
                summary_frames, summary_errors, log_handle, csv_header_written,
                quick_done, now, msg, nt_writes, console, csv_lines, connected,
                bus_state, pc, exit_reason >>

\* The identifiers seen on the bus: NEO 10, KRAK 10 (same device id, api bits
\* set) and a device that is in no spec.
BusArbIds == { ArbId(2, 5, 0, 0, 10), ArbId(2, 4, 6, 1, 10), ArbId(1, 1, 0, 0, 3) }

Frame(arb_id, is_error) == [arbitration_id |-> arb_id, is_error_frame |-> is_error]

\* What bus.recv can return: None, an error frame, or a data frame.
RecvChoices ==
    { None, Some(Frame(0, TRUE)) } \cup { Some(Frame(a, FALSE)) : a \in BusArbIds }

\* The state at `try:` (the locals initialised before the loop).
Init ==
    /\ \E c \in ConfigChoices :
           /\ args = c.args
           /\ groups = ResolveGroups(c.groups_raw)
    /\ last_seen = << >>
    /\ msg_count = << >>
    /\ bus_error_count = 0
    /\ last_publish = 0
    /\ last_summary = 0
    /\ last_traffic_warn = 0
    /\ last_rio_warn = 0
    /\ last_log = 0
    /\ total_frames = 0
    /\ summary_frames = 0
    /\ summary_errors = 0
    /\ log_handle = "None"
    /\ csv_header_written = FALSE
    /\ start_time = Epoch
    /\ quick_done = FALSE
    /\ now = Epoch
    /\ msg = None
    /\ nt_writes = None
    /\ console = << >>
    /\ csv_lines = << >>
    /\ connected = None
    /\ bus_state = "open"
    /\ pc = "loop"
    /\ exit_reason = "none"
    /\ call = [fn |-> "none"]

(***************************************************************************)
(* One pass of the loop.                                                   *)
(***************************************************************************)
\* A frame handler that tracks the configured keys only.
HandleFrameKnownOnly(m, t) ==
    LET unchanged == [last_seen |-> last_seen, msg_count |-> msg_count,
                      bus_error_count |-> bus_error_count,
                      total_frames |-> total_frames,
                      summary_frames |-> summary_frames,
                      summary_errors |-> summary_errors, printed |-> << >>]
    IN  IF IsNone(m) THEN unchanged
        ELSE IF Val(m).is_error_frame
        THEN [unchanged EXCEPT !.bus_error_count = bus_error_count + 1,
                               !.summary_errors = summary_errors + 1]
        ELSE LET d == _decode_ext_id(Val(m).arbitration_id)
                 key == << d[1], d[2], d[5] >>
                 prev_seen == Get(last_seen, key)
                 prev_missing == IsNone(prev_seen) \/ (t - Val(prev_seen)) > args.timeout
                 count == GetOr0(msg_count, key) + 1
             IN  IF key \notin spec_keys
                 THEN [unchanged EXCEPT !.total_frames = total_frames + 1,
                                        !.summary_frames = summary_frames + 1]
                 ELSE [last_seen |-> Put(last_seen, key, t),
                       msg_count |-> Put(msg_count, key, count),
                       bus_error_count |-> bus_error_count,
                       total_frames |-> total_frames + 1,
                       summary_frames |-> summary_frames + 1,
                       summary_errors |-> summary_errors,
                       printed |-> IF args.print_publish /\ prev_missing
                                   THEN << [kind |-> "device_seen", key |-> key,
                                            count |-> count] >>
                                   ELSE << >>]

\* A frame handler that decides "seen after missing" from the timestamp it
\* has just written.
HandleFrameSeenAfterWrite(m, t) ==
    LET unchanged == [last_seen |-> last_seen, msg_count |-> msg_count,
                      bus_error_count |-> bus_error_count,
                      total_frames |-> total_frames,
                      summary_frames |-> summary_frames,
                      summary_errors |-> summary_errors, printed |-> << >>]
    IN  IF IsNone(m) THEN unchanged
        ELSE IF Val(m).is_error_frame
        THEN [unchanged EXCEPT !.bus_error_count = bus_error_count + 1,
                               !.summary_errors = summary_errors + 1]
        ELSE LET d == _decode_ext_id(Val(m).arbitration_id)
                 key == << d[1], d[2], d[5] >>
                 written == Put(last_seen, key, t)
                 prev_missing == (t - written[key]) > args.timeout
                 count == GetOr0(msg_count, key) + 1
             IN  [last_seen |-> written,
                  msg_count |-> Put(msg_count, key, count),
                  bus_error_count |-> bus_error_count,
                  total_frames |-> total_frames + 1,
                  summary_frames |-> summary_frames + 1,
                  summary_errors |-> summary_errors,
                  printed |-> IF args.print_publish /\ prev_missing
                              THEN << [kind |-> "device_seen", key |-> key,
                                       count |-> count] >>
                              ELSE << >>]

\* A frame handler that stores the count 1 instead of incrementing it.
HandleFrameCountOne(m, t) ==
    IF IsNone(m) \/ Val(m).is_error_frame
    THEN [last_seen |-> last_seen, msg_count |-> msg_count,
          bus_error_count |-> bus_error_count + (IF IsNone(m) THEN 0 ELSE 1),
          total_frames |-> total_frames, summary_frames |-> summary_frames,
          summary_errors |-> summary_errors + (IF IsNone(m) THEN 0 ELSE 1),
          printed |-> << >>]
    ELSE LET d == _decode_ext_id(Val(m).arbitration_id)
             key == << d[1], d[2], d[5] >>
         IN  [last_seen |-> Put(last_seen, key, t),
              msg_count |-> Put(msg_count, key, 1),
              bus_error_count |-> bus_error_count,
              total_frames |-> total_frames + 1,
              summary_frames |-> summary_frames + 1,
              summary_errors |-> summary_errors,
              printed |-> << >>]

\* A frame handler that also counts an error frame as traffic.
HandleFrameErrorIsTraffic(m, t) ==
    IF IsNone(m)
    THEN [last_seen |-> last_seen, msg_count |-> msg_count,
          bus_error_count |-> bus_error_count, total_frames |-> total_frames,
          summary_frames |-> summary_frames, summary_errors |-> summary_errors,
          printed |-> << >>]
    ELSE LET d == _decode_ext_id(Val(m).arbitration_id)
             key == << d[1], d[2], d[5] >>
             err == Val(m).is_error_frame
         IN  [last_seen |-> IF err THEN last_seen ELSE Put(last_seen, key, t),
              msg_count |-> IF err THEN msg_count
                            ELSE Put(msg_count, key, GetOr0(msg_count, key) + 1),
              bus_error_count |-> bus_error_count + (IF err THEN 1 ELSE 0),
              total_frames |-> total_frames + 1,
              summary_frames |-> summary_frames + 1,
              summary_errors |-> summary_errors + (IF err THEN 1 ELSE 0),
              printed |-> << >>]

\* Frame handling keyed by device id alone: the frame also refreshes the
\* record of every configured key that carries the same device id.
HandleFrameRefreshesSameId(m, t) ==
    IF IsNone(m)
    THEN [last_seen |-> last_seen, msg_count |-> msg_count,
          bus_error_count |-> bus_error_count, total_frames |-> total_frames,
          summary_frames |-> summary_frames, summary_errors |-> summary_errors,
          printed |-> << >>]
    ELSE IF Val(m).is_error_frame
    THEN [last_seen |-> last_seen, msg_count |-> msg_count,
          bus_error_count |-> bus_error_count + 1, total_frames |-> total_frames,
          summary_frames |-> summary_frames, summary_errors |-> summary_errors + 1,
          printed |-> << >>]
    ELSE LET d == _decode_ext_id(Val(m).arbitration_id)
             key == << d[1], d[2], d[5] >>
             prev_seen == Get(last_seen, key)
             prev_missing == IsNone(prev_seen) \/ (t - Val(prev_seen)) > args.timeout
             count == GetOr0(msg_count, key) + 1
             same_id == { k \in DOMAIN last_seen : k[3] = key[3] } \cup { key }
         IN  [last_seen |-> [k \in DOMAIN last_seen \cup { key } |->
                                IF k \in same_id THEN t ELSE last_seen[k]],
              msg_count |-> Put(msg_count, key, count),
              bus_error_count |-> bus_error_count,
              total_frames |-> total_frames + 1,
              summary_frames |-> summary_frames + 1,
              summary_errors |-> summary_errors,
              printed |-> IF args.print_publish /\ prev_missing
                          THEN << [kind |-> "device_seen", key |-> key, count |-> count] >>
                          ELSE << >>]

\* Frame handling that stamps the record with the clock reading of the
\* previous pass instead of the one the periodic actions of this pass use.
HandleFrameStampsPrevious(m, t) ==
    IF IsNone(m)
    THEN [last_seen |-> last_seen, msg_count |-> msg_count,
          bus_error_count |-> bus_error_count, total_frames |-> total_frames,
          summary_frames |-> summary_frames, summary_errors |-> summary_errors,
          printed |-> << >>]
    ELSE IF Val(m).is_error_frame
    THEN [last_seen |-> last_seen, msg_count |-> msg_count,
          bus_error_count |-> bus_error_count + 1, total_frames |-> total_frames,
          summary_frames |-> summary_frames, summary_errors |-> summary_errors + 1,
          printed |-> << >>]
    ELSE LET d == _decode_ext_id(Val(m).arbitration_id)
             key == << d[1], d[2], d[5] >>
             prev_seen == Get(last_seen, key)
             prev_missing == IsNone(prev_seen) \/ (t - Val(prev_seen)) > args.timeout
             count == GetOr0(msg_count, key) + 1
         IN  [last_seen |-> Put(last_seen, key, now),
              msg_count |-> Put(msg_count, key, count),
              bus_error_count |-> bus_error_count,
              total_frames |-> total_frames + 1,
              summary_frames |-> summary_frames + 1,
              summary_errors |-> summary_errors,
              printed |-> IF args.print_publish /\ prev_missing
                          THEN << [kind |-> "device_seen", key |-> key, count |-> count] >>
                          ELSE << >>]

\* `if msg is not None:` ... : the counters and dicts after the frame of this
\* pass has been handled, and what was printed.
HandleFrame(m, t) ==
    IF IsNone(m)
    THEN [last_seen |-> last_seen, msg_count |-> msg_count,
          bus_error_count |-> bus_error_count, total_frames |-> total_frames,
          summary_frames |-> summary_frames, summary_errors |-> summary_errors,
          printed |-> << >>]
    ELSE IF Val(m).is_error_frame
    THEN [last_seen |-> last_seen, msg_count |-> msg_count,
          bus_error_count |-> bus_error_count + 1, total_frames |-> total_frames,
          summary_frames |-> summary_frames, summary_errors |-> summary_errors + 1,
          printed |-> << >>]
    ELSE LET d == _decode_ext_id(Val(m).arbitration_id)
             key == << d[1], d[2], d[5] >>
             prev_seen == Get(last_seen, key)
             prev_missing == IsNone(prev_seen) \/ (t - Val(prev_seen)) > args.timeout
             count == GetOr0(msg_count, key) + 1
         IN  [last_seen |-> Put(last_seen, key, t),
              msg_count |-> Put(msg_count, key, count),
              bus_error_count |-> bus_error_count,
              total_frames |-> total_frames + 1,
              summary_frames |-> summary_frames + 1,
              summary_errors |-> summary_errors,
              printed |-> IF args.print_publish /\ prev_missing
                          THEN << [kind |-> "device_seen", key |-> key, count |-> count] >>
                          ELSE << >>]

\* The bounds on the frames of a run.
WithinBounds(m) ==
    IF IsNone(m) THEN TRUE
    ELSE IF Val(m).is_error_frame THEN bus_error_count < MaxErrors
    ELSE total_frames < MaxFrames

\* if now - last_publish >= args.publish_period
PublishDue(t) == t - last_publish >= args.publish_period

\* A summary guard without the test that the period is positive.
SummaryDueNoGuard(t) == (t - last_summary) >= args.print_summary_period

SummaryDue(t) ==
    /\ args.print_summary_period > 0
    /\ (t - last_summary) >= args.print_summary_period

\* A traffic watchdog that is due once only.
TrafficDueOnce(t) ==
    /\ args.no_traffic_secs > 0
    /\ last_traffic_warn = 0

TrafficDue(t) ==
    /\ args.no_traffic_secs > 0
    /\ (t - last_traffic_warn) >= args.no_traffic_secs

LogDue(t) ==
    /\ args.log_csv
    /\ args.log_period > 0
    /\ (t - last_log) >= args.log_period

RioDue(t) == args.no_rio_secs > 0 /\ (t - last_rio_warn) >= args.no_rio_secs

\* A full pass, given the outcome f of the frame handling: nothing raises.  `connected` is what _nt_is_connected returns
\* when the pass asks (TRUE, FALSE or None).
\* A log event that writes the header before every data row.
CsvLinesHeaderEachTime(header_written, gs, row) ==
    << [kind |-> "header", cells |-> _write_csv_header(gs)],
       [kind |-> "row", cells |-> row] >>

\* What one log event appends to the file: the header when it has not been
\* written yet, then one data row.
CsvLines(header_written, gs, row) ==
    (IF header_written THEN << >>
     ELSE << [kind |-> "header", cells |-> _write_csv_header(gs)] >>)
        \o << [kind |-> "row", cells |-> row] >>

\* A traffic watchdog that warns whatever has been received.
NoTrafficLinesAnyFrames(total, t) == << [kind |-> "no_traffic", at |-> t] >>

\* if total_frames == 0: print("No CAN traffic detected as of ...")
NoTrafficLines(total, t) ==
    IF total = 0 THEN << [kind |-> "no_traffic", at |-> t] >> ELSE << >>

PassWith(f, t, m, conn) ==
    LET do_publish == PublishDue(t)
        do_summary == SummaryDue(t)
        sum_period == IF last_summary > 0 THEN t - last_summary
                      ELSE args.print_summary_period
        summary == _build_summary_lines(f.last_seen, f.msg_count, args.timeout,
                       Rate(f.summary_frames, sum_period),
                       Rate(f.summary_errors, sum_period), groups, t, "Summary")
        last_summary1 == IF do_summary THEN t ELSE last_summary
        frames1 == IF do_summary THEN 0 ELSE f.summary_frames
        errors1 == IF do_summary THEN 0 ELSE f.summary_errors
        do_traffic == TrafficDue(t)
        do_rio == RioDue(t)
        do_log == LogDue(t)
        log_period == IF last_log > 0 THEN t - last_log ELSE args.log_period
        row == _write_csv_row(t, f.bus_error_count, Rate(frames1, log_period),
                   Rate(errors1, log_period), f.last_seen, args.timeout, groups, t,
                   f.msg_count)
        do_quick == /\ args.quick_check
                    /\ ~quick_done
                    /\ (t - start_time) >= args.quick_wait
        quick_period == IF last_summary1 > 0 THEN t - last_summary1
                        ELSE args.quick_wait
        quick == _build_summary_lines(f.last_seen, f.msg_count, args.timeout,
                     Rate(frames1, quick_period), Rate(errors1, quick_period),
                     groups, t, "Summary")
    IN  /\ pc = "loop"
        /\ WithinBounds(m)
        /\ now' = t
        /\ msg' = m
        /\ last_seen' = f.last_seen
        /\ msg_count' = f.msg_count
        /\ bus_error_count' = f.bus_error_count
        /\ total_frames' = f.total_frames
        /\ nt_writes' = IF do_publish
                        THEN Some(Publish(f.bus_error_count, f.last_seen, f.msg_count,
                                          t, args.timeout))
                        ELSE None
        /\ last_publish' = IF do_publish THEN t ELSE last_publish
        /\ last_summary' = last_summary1
        /\ summary_frames' = frames1
        /\ summary_errors' = errors1
        /\ last_traffic_warn' = IF do_traffic THEN t ELSE last_traffic_warn
        /\ last_rio_warn' = IF do_rio THEN t ELSE last_rio_warn
        /\ log_handle' = IF do_log THEN "open" ELSE log_handle
        /\ csv_header_written' = (csv_header_written \/ do_log)
        /\ csv_lines' = IF do_log THEN CsvLines(csv_header_written, groups, row)
                        ELSE << >>
        /\ connected' = conn
        /\ last_log' = IF do_log THEN t ELSE last_log
        /\ console' = f.printed
               \o (IF do_summary THEN << summary >> ELSE << >>)
               \o (IF do_traffic THEN NoTrafficLines(f.total_frames, t) ELSE << >>)
               \o (IF do_rio /\ conn = Some(FALSE)
                   THEN << [kind |-> "no_rio", at |-> t] >> ELSE << >>)
               \o (IF do_quick THEN << quick >> ELSE << >>)
        /\ quick_done' = (quick_done \/ do_quick)
        /\ pc' = IF do_quick THEN "finally" ELSE "loop"
        /\ exit_reason' = IF do_quick THEN "break" ELSE "none"
        /\ UNCHANGED << cfg_vars, bus_state, call >>

Pass(t, m, conn) ==
    \E f \in { HandleFrame(m, t) } : PassWith(f, t, m, conn)

\* KeyboardInterrupt while waiting in bus.recv: "Stopping." is printed.  The
\* clock reading of the interrupted pass is used by nothing: `finally` reads
\* the clock again.
Interrupt ==
    /\ pc = "loop"
    /\ msg' = None
    /\ nt_writes' = None
    /\ csv_lines' = << >>
    /\ connected' = None
    /\ console' = << [kind |-> "stopping"] >>
    /\ pc' = "finally"
    /\ exit_reason' = "interrupt"
    /\ UNCHANGED << cfg_vars, last_seen, msg_count, bus_error_count, last_publish,
                    last_summary, last_traffic_warn, last_rio_warn, last_log,
                    total_frames, summary_frames, summary_errors, log_handle,
                    csv_header_written, quick_done, bus_state, now, call >>

\* bus.recv raises: the exception leaves the loop.
RecvFails ==
    /\ pc = "loop"
    /\ msg' = None
    /\ nt_writes' = None
    /\ csv_lines' = << >>
    /\ connected' = None
    /\ console' = << >>
    /\ pc' = "finally"
    /\ exit_reason' = "error"
    /\ UNCHANGED << cfg_vars, last_seen, msg_count, bus_error_count, last_publish,
                    last_summary, last_traffic_warn, last_rio_warn, last_log,
                    total_frames, summary_frames, summary_errors, log_handle,
                    csv_header_written, quick_done, bus_state, now, call >>

\* The first table write of a due publish raises: the frame of the pass has
\* been handled, nothing after it runs.
SinkFails(t, m) ==
    \E f \in { HandleFrame(m, t) } :
        /\ pc = "loop"
        /\ WithinBounds(m)
        /\ PublishDue(t)
        /\ now' = t
        /\ msg' = m
        /\ last_seen' = f.last_seen
        /\ msg_count' = f.msg_count
        /\ bus_error_count' = f.bus_error_count
        /\ total_frames' = f.total_frames
        /\ summary_frames' = f.summary_frames
        /\ summary_errors' = f.summary_errors
        /\ nt_writes' = None
        /\ csv_lines' = << >>
        /\ connected' = None
        /\ console' = f.printed
        /\ pc' = "finally"
        /\ exit_reason' = "error"
        /\ UNCHANGED << cfg_vars, last_publish, last_summary, last_traffic_warn,
                        last_rio_warn, last_log, log_handle, csv_header_written,
                        quick_done, bus_state, call >>

\* Finally without the log_handle.close() of 831-835.
FinallyKeepsLogOpen(t) ==
    LET fps(count) ==
            IF last_summary > 0 THEN Rate(count, t - last_summary)
            ELSE IF t - start_time >= 1 THEN Rate(count, t - start_time)
            ELSE << 2 * count, 1 >>
    IN  /\ pc = "finally"
        /\ now' = t
        /\ console' = << _build_summary_lines(last_seen, msg_count, args.timeout,
                             fps(summary_frames), fps(summary_errors), groups, t,
                             "Final Summary") >>
        /\ \E shutdown_raises \in BOOLEAN :
               bus_state' = IF shutdown_raises THEN "shutdown raised" ELSE "shutdown"
        /\ \E close_raises \in (IF log_handle = "open" THEN BOOLEAN ELSE { FALSE }) :
               log_handle' = IF close_raises THEN log_handle ELSE log_handle
        /\ nt_writes' = None
        /\ csv_lines' = << >>
        /\ connected' = None
        /\ pc' = IF exit_reason = "error" THEN "raised" ELSE "returned"
        /\ UNCHANGED << cfg_vars, last_seen, msg_count, bus_error_count, last_publish,
                        last_summary, last_traffic_warn, last_rio_warn, last_log,
                        total_frames, summary_frames, summary_errors,
                        csv_header_written, quick_done, msg, exit_reason, call >>

\* Finally followed by `return 0` whatever ended the loop.
FinallyMasksFailure(t) ==
    LET fps(count) ==
            IF last_summary > 0 THEN Rate(count, t - last_summary)
            ELSE IF t - start_time >= 1 THEN Rate(count, t - start_time)
            ELSE << 2 * count, 1 >>
    IN  /\ pc = "finally"
        /\ now' = t
        /\ console' = << _build_summary_lines(last_seen, msg_count, args.timeout,
                             fps(summary_frames), fps(summary_errors), groups, t,
                             "Final Summary") >>
        /\ \E shutdown_raises \in BOOLEAN :
               bus_state' = IF shutdown_raises THEN "shutdown raised" ELSE "shutdown"
        /\ \E close_raises \in (IF log_handle = "open" THEN BOOLEAN ELSE { FALSE }) :
               log_handle' = IF log_handle # "open" THEN log_handle
                             ELSE IF close_raises THEN "close raised" ELSE "closed"
        /\ nt_writes' = None
        /\ csv_lines' = << >>
        /\ connected' = None
        /\ pc' = "returned"
        /\ UNCHANGED << cfg_vars, last_seen, msg_count, bus_error_count, last_publish,
                        last_summary, last_traffic_warn, last_rio_warn, last_log,
                        total_frames, summary_frames, summary_errors,
                        csv_header_written, quick_done, msg, exit_reason, call >>

\* The `finally:` block: the final summary, bus.shutdown(), log_handle.close().
\* bus.shutdown() and log_handle.close() may raise: `except Exception: pass`
\* swallows it.  When the block ends, an exception of the loop that is still
\* pending leaves main; otherwise main goes on to `return 0`.
\* period = now - last_summary if last_summary > 0 else max(now - start_time, 0.5)
Finally(t) ==
    LET fps(count) ==
            IF last_summary > 0 THEN Rate(count, t - last_summary)
            ELSE IF t - start_time >= 1 THEN Rate(count, t - start_time)
            ELSE << 2 * count, 1 >>
    IN  /\ pc = "finally"
        /\ now' = t
        /\ console' = << _build_summary_lines(last_seen, msg_count, args.timeout,
                             fps(summary_frames), fps(summary_errors), groups, t,
                             "Final Summary") >>
        /\ \E shutdown_raises \in BOOLEAN :
               bus_state' = IF shutdown_raises THEN "shutdown raised" ELSE "shutdown"
        /\ \E close_raises \in (IF log_handle = "open" THEN BOOLEAN ELSE { FALSE }) :
               log_handle' = IF log_handle # "open" THEN log_handle
                             ELSE IF close_raises THEN "close raised" ELSE "closed"
        /\ nt_writes' = None
        /\ csv_lines' = << >>
        /\ connected' = None
        /\ pc' = IF exit_reason = "error" THEN "raised" ELSE "returned"
        /\ UNCHANGED << cfg_vars, last_seen, msg_count, bus_error_count, last_publish,
                        last_summary, last_traffic_warn, last_rio_warn, last_log,
                        total_frames, summary_frames, summary_errors,
                        csv_header_written, quick_done, msg, exit_reason, call >>

\* What _nt_is_connected returns in a pass that asks; a pass that does not ask
\* reads nothing.
ConnectedChoices(t) == IF RioDue(t) THEN { None, Some(TRUE), Some(FALSE) } ELSE { None }

(***************************************************************************)
(* Specifications of the run.                                              *)
(***************************************************************************)
\* A run during which the system clock is not set back: every reading of
\* time.time() is at least the previous one.
Next ==
    \/ \E t \in Times, m \in RecvChoices :
           \E c \in ConnectedChoices(t) : t >= now /\ Pass(t, m, c)
    \/ \E t \in Times, m \in RecvChoices : t >= now /\ SinkFails(t, m)
    \/ RecvFails
    \/ Interrupt
    \/ \E t \in Times : t >= now /\ Finally(t)

Spec == Init /\ [][Next]_vars

\* time.time() is the wall clock: a reading may be lower than an earlier one
\* when the system clock is set back between the two calls.
NextWallClock ==
    \/ \E t \in Times, m \in RecvChoices :
           \E c \in ConnectedChoices(t) : Pass(t, m, c)
    \/ \E t \in Times, m \in RecvChoices : SinkFails(t, m)
    \/ RecvFails
    \/ Interrupt
    \/ \E t \in Times : Finally(t)

SpecWallClock == Init /\ [][NextWallClock]_vars

\* The `finally:` block of the deviceId-only generation of the bridge
\* (can_nt_bridge.py): bus.shutdown() and log_handle.close(), nothing printed.
FinallyDeviceIdOnly(t) ==
    /\ pc = "finally"
    /\ now' = t
    /\ console' = << >>
    /\ \E shutdown_raises \in BOOLEAN :
           bus_state' = IF shutdown_raises THEN "shutdown raised" ELSE "shutdown"
    /\ \E close_raises \in (IF log_handle = "open" THEN BOOLEAN ELSE { FALSE }) :
           log_handle' = IF log_handle # "open" THEN log_handle
                         ELSE IF close_raises THEN "close raised" ELSE "closed"
    /\ nt_writes' = None
    /\ csv_lines' = << >>
    /\ connected' = None
    /\ pc' = IF exit_reason = "error" THEN "raised" ELSE "returned"
    /\ UNCHANGED << cfg_vars, last_seen, msg_count, bus_error_count, last_publish,
                    last_summary, last_traffic_warn, last_rio_warn, last_log,
                    total_frames, summary_frames, summary_errors,
                    csv_header_written, quick_done, msg, exit_reason, call >>

\* The deviceId-only generation leaves its loop on the same paths (quick-check
\* break, KeyboardInterrupt, an exception of bus.recv or of a table write) and
\* then runs its own finally block.
NextDeviceIdOnly ==
    \/ \E t \in Times, m \in RecvChoices :
           \E c \in ConnectedChoices(t) : t >= now /\ Pass(t, m, c)
    \/ \E t \in Times, m \in RecvChoices : t >= now /\ SinkFails(t, m)
    \/ RecvFails
    \/ Interrupt
    \/ \E t \in Times : t >= now /\ FinallyDeviceIdOnly(t)

SpecDeviceIdOnly == Init /\ [][NextDeviceIdOnly]_vars

\* A pass whose clock reading is later than that of the pass before it.
AdvancingPass ==
    \E t \in Times, m \in RecvChoices :
        /\ pc = "loop" /\ t > now
        /\ now' = t /\ msg' = m
        /\ \E c \in ConnectedChoices(t) : Pass(t, m, c)

\* The loop keeps making passes (bus.recv returns after at most 50 ms) and the
\* clock keeps advancing while it does, up to the end of the modelled time.
SpecLive == Spec /\ WF_vars(AdvancingPass)

(***************************************************************************)
(* Direct calls of the pure functions.                                     *)
(***************************************************************************)
ProbeTimes == 0 .. MaxProbe

\* _format_status(ts, now, timeout) for every timestamp (or None), clock
\* reading and timeout of the probe range.
CallFormatStatus ==
    \E ts \in { None } \cup { Some(x) : x \in ProbeTimes },
       t \in ProbeTimes, timeout \in ProbeTimes :
        /\ call.fn = "none"
        /\ call' = [fn |-> "_format_status", ts |-> ts, now |-> t,
                    timeout |-> timeout, result |-> _format_status(ts, t, timeout)]
        /\ UNCHANGED << cfg_vars, loop_vars >>

SpecFormatStatus == Init /\ [][CallFormatStatus]_vars

\* The first and last bit of each field of the 29-bit identifier: bits 0 and 5
\* (device id), 6 and 9 (api index), 10 and 15 (api class), 16 and 23
\* (manufacturer), 24 and 28 (device type).
FieldEdgeBits ==
    { 1, 32, 64, 512, 1024, 32768, 65536, 8388608, 16777216, 268435456 }

RECURSIVE SumOf(_)
SumOf(S) == IF S = { } THEN 0
            ELSE LET x == CHOOSE y \in S : TRUE IN x + SumOf(S \ { x })

\* The identifiers decoded directly: every combination of the edge bits, the
\* identifiers seen on the bus, and 0x0502000A.
ProbeArbIds ==
    { SumOf(S) : S \in SUBSET FieldEdgeBits } \cup BusArbIds \cup { 84017162 }

CallDecode ==
    \E a \in ProbeArbIds :
        /\ call.fn = "none"
        /\ call' = [fn |-> "_decode_ext_id", arb_id |-> a,
                    result |-> _decode_ext_id(a),
                    legacy |-> _device_id_from_arb_id(a)]
        /\ UNCHANGED << cfg_vars, loop_vars >>

SpecDecode == Init /\ [][CallDecode]_vars

(***************************************************************************)
(* Properties.                                                             *)
(***************************************************************************)
\* C1: _format_status returns (MISSING, None, True) when there is no
\* timestamp; otherwise the age is now - ts, and the result is (STALE, age,
\* True) exactly when age > timeout and (OK, age, False) exactly when
\* age <= timeout, so age = timeout is OK.
C1_FormatStatus ==
    call.fn = "_format_status" =>
        IF call.ts = None
        THEN call.result = << "MISSING", None, TRUE >>
        ELSE LET age == call.now - call.ts[1]
             IN  /\ call.result[2] = << age >>
                 /\ call.result[1] \in { "OK", "STALE" }
                 /\ (call.result[1] = "STALE") <=> (age > call.timeout)
                 /\ (call.result[1] = "OK") <=> (age <= call.timeout)
                 /\ call.result[3] = (call.result[1] = "STALE")

\* A call at the boundary age = timeout (with a positive age), answered OK.
C1_Witness ==
    /\ call.fn = "_format_status"
    /\ call.ts # None
    /\ call.now - call.ts[1] = call.timeout
    /\ call.timeout > 0
    /\ call.result[1] = "OK"

\* C9: over the 29-bit identifiers, _decode_ext_id returns deviceType =
\* bits 24-28, manufacturer = bits 16-23, apiClass = bits 10-15, apiIndex =
\* bits 6-9 and deviceId = bits 0-5, each within its width; the deviceId is
\* the legacy decode arb_id & 0x3F; distinct identifiers decode differently.
C9_Decode ==
    call.fn = "_decode_ext_id" =>
        LET r == call.result
            x == call.arb_id
        IN  /\ r[1] \in 0 .. 255
            /\ r[2] \in 0 .. 31
            /\ r[3] \in 0 .. 63
            /\ r[4] \in 0 .. 15
            /\ r[5] \in 0 .. 63
            /\ x = r[2] * 16777216 + r[1] * 65536 + r[3] * 1024 + r[4] * 64 + r[5]
            /\ call.legacy = r[5]
            /\ \A y \in ProbeArbIds : _decode_ext_id(y) = r => y = x

\* An identifier with the top bit of every field set (bits 28, 23, 15, 9, 5).
C9_Witness ==
    /\ call.fn = "_decode_ext_id"
    /\ call.result = << 128, 16, 32, 8, 32 >>

\* C10 as stated: 0x0502000A decodes to manufacturer 5, deviceType 2,
\* deviceId 10.
C10_AsStated ==
    (call.fn = "_decode_ext_id" /\ call.arb_id = 84017162) =>
        << call.result[1], call.result[2], call.result[5] >> = << 5, 2, 10 >>

\* C10 amended: 0x0502000A decodes to manufacturer 2, deviceType 5,
\* deviceId 10 (0x05 lies in bits 24-28, 0x02 in bits 16-23).
C10_Decode0502000A ==
    (call.fn = "_decode_ext_id" /\ call.arb_id = 84017162) =>
        << call.result[1], call.result[2], call.result[5] >> = << 2, 5, 10 >>

C10_Witness ==
    /\ call.fn = "_decode_ext_id"
    /\ call.arb_id = 84017162
    /\ call.result[5] = 10

\* The key a data frame is recorded under.
FrameKey(m) ==
    LET d == _decode_ext_id(m[1].arbitration_id) IN << d[1], d[2], d[5] >>

IsDataFrame(m) == m # None /\ ~m[1].is_error_frame
IsErrorFrame(m) == m # None /\ m[1].is_error_frame

\* C2: msg_count[k] never decreases; a pass that receives a data frame
\* decoding to k raises msg_count[k] by exactly 1 and changes no other count.
C2_MsgCount ==
    [][ /\ \A k \in DOMAIN msg_count :
              k \in DOMAIN msg_count' /\ msg_count'[k] >= msg_count[k]
        /\ (pc = "loop" /\ IsDataFrame(msg')) =>
              LET k == FrameKey(msg')
              IN  /\ GetOr0(msg_count', k) = GetOr0(msg_count, k) + 1
                  /\ DOMAIN msg_count' = DOMAIN msg_count \cup { k }
                  /\ \A j \in DOMAIN msg_count : j # k => msg_count'[j] = msg_count[j]
      ]_vars

\* The second frame of a key has just been counted.
C2_Witness ==
    /\ IsDataFrame(msg)
    /\ pc = "loop"
    /\ msg_count[FrameKey(msg)] = 2

\* C3 as stated: once last_seen[k] is set, no step lowers it.
C3_LastSeenNeverDecreases ==
    [][ \A k \in DOMAIN last_seen :
            k \in DOMAIN last_seen' /\ last_seen'[k] >= last_seen[k] ]_vars

\* The periodic summary ran in this step.
SummaryFired == last_summary' # last_summary

\* C4 as stated: a pass that receives an error frame raises bus_error_count
\* and summary_errors by exactly 1 and leaves last_seen, msg_count,
\* total_frames and summary_frames unchanged; a pass that receives no frame
\* leaves all of them unchanged.
C4_AsStated ==
    [][ /\ (pc = "loop" /\ IsErrorFrame(msg')) =>
              /\ bus_error_count' = bus_error_count + 1
              /\ summary_errors' = summary_errors + 1
              /\ UNCHANGED << last_seen, msg_count, total_frames, summary_frames >>
        /\ (pc = "loop" /\ msg' = None) =>
              UNCHANGED << bus_error_count, summary_errors, last_seen, msg_count,
                           total_frames, summary_frames >>
      ]_vars

\* C4 amended: the same, except that in a pass in which the periodic summary
\* fires the window counters end at 0, after the summary has reported them
\* (the error frame of the pass included); a pass without frame prints no
\* device line and the loop goes on unless the pass ends the run (quick check,
\* interrupt, or a raising read or write).
C4_FrameEffect ==
    [][ /\ (pc = "loop" /\ IsErrorFrame(msg')) =>
              /\ bus_error_count' = bus_error_count + 1
              /\ UNCHANGED << last_seen, msg_count, total_frames >>
              /\ IF SummaryFired
                 THEN /\ summary_errors' = 0
                      /\ summary_frames' = 0
                      /\ \E i \in DOMAIN console' :
                            /\ console'[i].kind = "summary"
                            /\ console'[i].err_rate[1] = summary_errors + 1
                            /\ console'[i].fps[1] = summary_frames
                 ELSE /\ summary_errors' = summary_errors + 1
                      /\ summary_frames' = summary_frames
        /\ (pc = "loop" /\ msg' = None) =>
              /\ UNCHANGED << bus_error_count, last_seen, msg_count, total_frames >>
              /\ IF SummaryFired
                 THEN summary_errors' = 0 /\ summary_frames' = 0
                 ELSE UNCHANGED << summary_errors, summary_frames >>
              /\ \A i \in DOMAIN console' : console'[i].kind # "device_seen"
              /\ (pc' = "loop") <=> (exit_reason' = "none")
      ]_vars

\* An error frame has just been received after a data frame, in a pass
\* without summary: it is counted in both error counters and nowhere else.
C4_Witness ==
    /\ IsErrorFrame(msg)
    /\ pc = "loop"
    /\ bus_error_count = 1
    /\ summary_errors = 1
    /\ total_frames = 1
    /\ summary_frames = 1
    /\ DOMAIN last_seen = DOMAIN msg_count
    /\ Cardinality(DOMAIN last_seen) = 1

\* Key k has a record that is at most timeout old at the instant `now`.
IsFresh(k) == k \in DOMAIN last_seen /\ (now - last_seen[k]) <= args.timeout

\* The freshness state of key k at the instant `now`.
StateOf(k) ==
    IF k \notin DOMAIN last_seen THEN "MISSING"
    ELSE IF (now - last_seen[k]) > args.timeout THEN "STALE"
    ELSE "OK"

\* The summaries printed by the last step.
Summaries == { i \in DOMAIN console : console[i].kind = "summary" }

\* The data rows written to the CSV log by the last step.
CsvRows == { i \in DOMAIN csv_lines : csv_lines[i].kind = "row" }

\* The column of the CSV row that holds the seen count of group g; its missing
\* count is in the next column.
CsvSeenColumn(g) == 4 + 3 * Len(device_specs) + 2 * (g - 1) + 1

\* C5: in every summary and in every CSV row, for every configured group,
\* seen + missing equals the number of keys of the group.
C5_GroupCountsSum ==
    /\ \A i \in Summaries :
          /\ Len(console[i].groups) = Len(groups)
          /\ \A g \in DOMAIN groups :
                /\ console[i].groups[g].name = groups[g].name
                /\ console[i].groups[g].seen + console[i].groups[g].missing
                      = Len(groups[g].keys)
    /\ \A i \in CsvRows :
          /\ Len(csv_lines[i].cells) = 4 + 3 * Len(device_specs) + 2 * Len(groups)
          /\ \A g \in DOMAIN groups :
                csv_lines[i].cells[CsvSeenColumn(g)][2]
                    + csv_lines[i].cells[CsvSeenColumn(g) + 1][2]
                      = Len(groups[g].keys)

\* A summary and a CSV row of the same pass, after a frame, with a group that
\* has both a seen and a missing key.
C5_Witness ==
    /\ total_frames >= 1
    /\ \E i \in Summaries : \E g \in DOMAIN groups :
          /\ console[i].groups[g].seen >= 1
          /\ console[i].groups[g].missing >= 1
    /\ \E i \in CsvRows : \E g \in DOMAIN groups :
          /\ csv_lines[i].cells[CsvSeenColumn(g)][2] >= 1
          /\ csv_lines[i].cells[CsvSeenColumn(g) + 1][2] >= 1

\* C6: in every summary a group's seen count is the number of its keys whose
\* state is OK and its missing count the number whose state is STALE or
\* MISSING; a never-seen device is listed with count 0, no age and MISSING,
\* and is counted missing in every group that contains it.
C6_GroupRollup ==
    \A i \in Summaries :
        /\ \A g \in DOMAIN groups :
              LET keys == groups[g].keys
              IN  /\ console[i].groups[g].seen
                        = Cardinality({ j \in DOMAIN keys : StateOf(keys[j]) = "OK" })
                  /\ console[i].groups[g].missing
                        = Cardinality({ j \in DOMAIN keys :
                                            StateOf(keys[j]) \in { "STALE", "MISSING" } })
                  /\ console[i].groups[g].seen
                        = Cardinality({ j \in DOMAIN keys : IsFresh(keys[j]) })
                  /\ console[i].groups[g].missing
                        >= Cardinality({ j \in DOMAIN keys : keys[j] \notin DOMAIN last_seen })
        /\ \A d \in DOMAIN device_specs :
              KeyOf(device_specs[d]) \notin DOMAIN last_seen =>
                  /\ console[i].devices[d].count = 0
                  /\ console[i].devices[d].age = None
                  /\ console[i].devices[d].status = "MISSING"
                  /\ console[i].devices[d].is_missing

\* A summary of a group that holds an OK key, a STALE key and a never-seen key.
C6_Witness ==
    \E i \in Summaries : \E g \in DOMAIN groups :
        LET keys == groups[g].keys
        IN  /\ \E j \in DOMAIN keys : StateOf(keys[j]) = "OK"
            /\ \E j \in DOMAIN keys : StateOf(keys[j]) = "STALE"
            /\ \E j \in DOMAIN keys : StateOf(keys[j]) = "MISSING"
            /\ console[i].groups[g].seen >= 1
            /\ console[i].groups[g].missing >= 2

\* The legacy entries written by the last step, by device id.
LegacyPublished == IF nt_writes = None THEN << >> ELSE Val(nt_writes).legacy

\* Every order in which the keys of a device id can be folded.
Orderings(keys) ==
    { [i \in DOMAIN keys |-> keys[p[i]]] :
        p \in { q \in [DOMAIN keys -> DOMAIN keys] :
                    \A a, b \in DOMAIN keys : q[a] = q[b] => a = b } }

\* OK if any key is OK, else STALE if any key is STALE, else MISSING.
CombinedStatus(keys) ==
    IF \E j \in DOMAIN keys : StateOf(keys[j]) = "OK" THEN "OK"
    ELSE IF \E j \in DOMAIN keys : StateOf(keys[j]) = "STALE" THEN "STALE"
    ELSE "MISSING"

\* C7: the published legacy status of a device id is OK if any of its keys is
\* OK, else STALE if any is STALE, else MISSING, and folding the keys in any
\* other order gives the same status.
C7_LegacyStatus ==
    \A id \in DOMAIN LegacyPublished :
        /\ LegacyPublished[id].status = CombinedStatus(KeysOfId(id))
        /\ \A o \in Orderings(KeysOfId(id)) :
              LegacyFold([total |-> 0, best_ts |-> None, best_age |-> None,
                          status |-> "MISSING"],
                         o, 1, last_seen, msg_count, now, args.timeout).status
                  = LegacyPublished[id].status

\* A publish in which the first key of a device id is OK and a later one STALE.
C7_Witness ==
    \E id \in DOMAIN LegacyPublished :
        LET keys == KeysOfId(id)
        IN  /\ Len(keys) >= 3
            /\ StateOf(keys[1]) = "OK"
            /\ StateOf(keys[2]) = "STALE"
            /\ StateOf(keys[3]) = "MISSING"
            /\ LegacyPublished[id].status = "OK"

\* The sum of the message counts of keys[i..].
RECURSIVE SumCounts(_, _)
SumCounts(keys, i) ==
    IF i > Len(keys) THEN 0 ELSE GetOr0(msg_count, keys[i]) + SumCounts(keys, i + 1)

\* The timestamps of the keys that have a record.
RecordedTimes(keys) ==
    { last_seen[keys[j]] : j \in { i \in DOMAIN keys : keys[i] \in DOMAIN last_seen } }

\* The largest element of a non-empty set of numbers.
MaxOf(S) == CHOOSE x \in S : \A y \in S : y <= x

\* C8: the published legacy msgCount is the sum of the counts of the keys of
\* the device id, lastSeen is the largest last_seen among the keys that have
\* a record and ageSec is now minus it; both are -1 when no key has a record.
C8_LegacyTotals ==
    \A id \in DOMAIN LegacyPublished :
        LET keys == KeysOfId(id)
            times == RecordedTimes(keys)
        IN  /\ LegacyPublished[id].msgCount = SumCounts(keys, 1)
            /\ IF times = { }
               THEN /\ LegacyPublished[id].lastSeen = -1
                    /\ LegacyPublished[id].ageSec = -1
               ELSE /\ LegacyPublished[id].lastSeen = MaxOf(times)
                    /\ LegacyPublished[id].ageSec = now - MaxOf(times)

\* A publish in which two keys of a device id have a record, the later key of
\* the fold having the later timestamp, next to a device id without record.
C8_Witness ==
    /\ \E id \in DOMAIN LegacyPublished :
          LET keys == KeysOfId(id)
          IN  /\ Len(keys) >= 2
              /\ keys[1] \in DOMAIN last_seen
              /\ keys[2] \in DOMAIN last_seen
              /\ last_seen[keys[2]] > last_seen[keys[1]]
              /\ LegacyPublished[id].msgCount = 2
              /\ LegacyPublished[id].lastSeen = last_seen[keys[2]]
    /\ \E id \in DOMAIN LegacyPublished : LegacyPublished[id].lastSeen = -1

\* The step is a tick that received a data frame: a pass of the loop, complete
\* or cut short by a raising table write.
DataFrameTick == pc = "loop" /\ IsDataFrame(msg')

\* C11: a key has a last_seen entry iff its msg_count is at least 1, iff a data
\* frame decoding to it has been received: no key has an entry at the start,
\* a tick that receives a data frame adds the entry of the frame's key
\* (configured or not) if it is not there, and no other step adds or removes
\* an entry.
C11_RecordIffReceived ==
    /\ [](/\ DOMAIN last_seen = DOMAIN msg_count
          /\ \A k \in DOMAIN msg_count : msg_count[k] >= 1)
    /\ (DOMAIN last_seen = { })
    /\ [][ /\ DOMAIN last_seen' =
                DOMAIN last_seen \cup (IF DataFrameTick THEN { FrameKey(msg') } ELSE { })
           /\ DOMAIN msg_count' =
                DOMAIN msg_count \cup (IF DataFrameTick THEN { FrameKey(msg') } ELSE { })
         ]_vars

\* A key of no device spec has a record, created by its first frame, next to
\* a configured key that has none; the run goes on after the frame.
C11_Witness ==
    /\ \E k \in DOMAIN last_seen : k \notin spec_keys /\ msg_count[k] = 1
    /\ \E k \in spec_keys : k \notin DOMAIN last_seen
    /\ msg = None
    /\ pc = "loop"

\* C12: a tick that records a data frame for key k prints 'Device seen'
\* exactly when print-publish is on and, before the update, k had no record or
\* the frame's clock reading minus the previous last_seen[k] was greater than
\* timeout; a frame within timeout of the previous one prints nothing, and no
\* other step prints the line.
C12_SeenAfterMissing ==
    [][ LET seen_lines == { i \in DOMAIN console' : console'[i].kind = "device_seen" }
        IN  IF DataFrameTick
            THEN LET k == FrameKey(msg')
                     was_missing == \/ k \notin DOMAIN last_seen
                                    \/ (now' - last_seen[k]) > args.timeout
                 IN  IF args.print_publish /\ was_missing
                     THEN /\ Cardinality(seen_lines) = 1
                          /\ \A i \in seen_lines :
                                /\ console'[i].key = k
                                /\ console'[i].count = msg_count'[k]
                     ELSE seen_lines = { }
            ELSE seen_lines = { }
      ]_vars

\* A device that went stale has just been seen again: the line is printed
\* with the count 2, although the record now holds the frame's own timestamp.
C12_Witness ==
    /\ IsDataFrame(msg)
    /\ pc = "loop"
    /\ args.print_publish
    /\ last_seen[FrameKey(msg)] = now
    /\ \E i \in DOMAIN console :
          /\ console[i].kind = "device_seen"
          /\ console[i].key = FrameKey(msg)
          /\ console[i].count = 2

\* What the step shows of each periodic action having fired.
PublishFired == nt_writes' # None
LogFired == csv_lines' # << >>
TrafficWatchdogFired ==
    \/ last_traffic_warn' # last_traffic_warn
    \/ \E i \in DOMAIN console' : console'[i].kind = "no_traffic"
RioWatchdogFired ==
    \/ last_rio_warn' # last_rio_warn
    \/ \E i \in DOMAIN console' : console'[i].kind = "no_rio"

\* Summary, CSV log and the two watchdogs fire only with a positive period
\* that has elapsed since their own last fire.
GuardedActionsGated ==
    /\ SummaryFired => /\ args.print_summary_period > 0
                       /\ (now' - last_summary) >= args.print_summary_period
    /\ LogFired => /\ args.log_csv
                   /\ args.log_period > 0
                   /\ (now' - last_log) >= args.log_period
    /\ TrafficWatchdogFired => /\ args.no_traffic_secs > 0
                               /\ (now' - last_traffic_warn) >= args.no_traffic_secs
    /\ RioWatchdogFired => /\ args.no_rio_secs > 0
                           /\ (now' - last_rio_warn) >= args.no_rio_secs

\* C13 as stated: each of the four periodic actions fires in a tick only if
\* its period is greater than 0 and has elapsed since its own last fire.
C13_AsStated ==
    [][ /\ GuardedActionsGated
        /\ PublishFired => /\ args.publish_period > 0
                           /\ (now' - last_publish) >= args.publish_period
      ]_vars

\* The step is a tick that ran to the end of the loop body.
CompleteTick == pc = "loop" /\ exit_reason' \in { "none", "break" }

\* C13 amended: summary, CSV log and the watchdogs fire only if their period
\* is greater than 0 and has elapsed, so a period of 0 or less disables them;
\* publish fires only if its period has elapsed but is not tested for being
\* positive: with a period of 0 or less it fires in every complete tick.
C13_PeriodGates ==
    [][ /\ GuardedActionsGated
        /\ PublishFired => (now' - last_publish) >= args.publish_period
        /\ (CompleteTick /\ args.publish_period <= 0) => PublishFired
      ]_vars

\* A run with publish period 0 and the traffic watchdog disabled, after the
\* first tick: the tick publishes, the watchdog has never fired although no
\* frame was ever received, and the CSV log is not due.
C13_Witness ==
    /\ args.publish_period = 0
    /\ args.no_traffic_secs = 0
    /\ nt_writes # None
    /\ now > Epoch
    /\ last_publish = now
    /\ last_summary = now
    /\ last_traffic_warn = 0
    /\ total_frames = 0
    /\ csv_lines = << >>
    /\ \A i \in DOMAIN console : console[i].kind # "no_traffic"

\* C14 as stated: after every periodic summary and after every CSV log row
\* both rate-window counters are zero.
C14_WindowResetOnReport ==
    [][ (SummaryFired \/ LogFired) => (summary_frames' = 0 /\ summary_errors' = 0) ]_vars

\* The data frames and the error frames the step received (0 or 1 each).
DataFramesOfStep == IF pc = "loop" /\ IsDataFrame(msg') THEN 1 ELSE 0
ErrorFramesOfStep == IF pc = "loop" /\ IsErrorFrame(msg') THEN 1 ELSE 0

\* C15: the window counters count the data frames and the error frames
\* received since the previous periodic summary (since the start before the
\* first one): a step without periodic summary adds the frame it received to
\* them; a periodic summary reports the counters, the frame of its own tick
\* included, over now minus the previous summary time (over the configured
\* period when it is the first), and leaves both counters at zero.
C15_SummaryWindow ==
    /\ (summary_frames = 0 /\ summary_errors = 0 /\ last_summary = 0)
    /\ [][ IF SummaryFired
           THEN LET elapsed == IF last_summary > 0 THEN now' - last_summary
                               ELSE args.print_summary_period
                IN  /\ \E i \in DOMAIN console' :
                          /\ console'[i].kind = "summary"
                          /\ console'[i].title = "Summary"
                          /\ console'[i].at = now'
                          /\ console'[i].fps = << summary_frames + DataFramesOfStep, elapsed >>
                          /\ console'[i].err_rate
                                = << summary_errors + ErrorFramesOfStep, elapsed >>
                    /\ last_summary' = now'
                    /\ summary_frames' = 0
                    /\ summary_errors' = 0
           ELSE /\ summary_frames' = summary_frames + DataFramesOfStep
                /\ summary_errors' = summary_errors + ErrorFramesOfStep
         ]_vars

\* The second periodic summary of a run with summary period 1, two seconds
\* after the first: it reports the one data frame and the one error frame
\* received in between over 2 seconds, and the counters are back to zero.
C15_Witness ==
    /\ args.print_summary_period = 1
    /\ pc = "loop"
    /\ last_summary = now
    /\ total_frames = 1
    /\ bus_error_count = 1
    /\ summary_frames = 0
    /\ summary_errors = 0
    /\ \E i \in DOMAIN console :
          /\ console[i].kind = "summary"
          /\ console[i].fps = << 1, 2 >>
          /\ console[i].err_rate = << 1, 2 >>

\* The step is a log event: the CSV branch ran and moved last_log.
LogEvent == last_log' # last_log

\* The kinds of the lines the step appended to the log file, in order.
KindsWritten == [i \in DOMAIN csv_lines' |-> csv_lines'[i].kind]

\* C16: the first log event of a run writes the header and then one data row,
\* every later log event writes exactly one data row and no header, and no
\* other step writes to the file.
C16_HeaderOnce ==
    /\ (last_log = 0 /\ csv_lines = << >>)
    /\ [][ IF LogEvent
           THEN IF last_log = 0
                THEN KindsWritten = << "header", "row" >>
                ELSE KindsWritten = << "row" >>
           ELSE csv_lines' = << >>
         ]_vars

\* A log event after the first one: one data row, no header.
C16_Witness ==
    /\ csv_header_written
    /\ last_log = now
    /\ now > Epoch
    /\ Len(csv_lines) = 1
    /\ csv_lines[1].kind = "row"
    /\ log_handle = "open"

\* C17 as stated: with D devices and G groups the header written to the log
\* has exactly 4 + 3*D + 2*G columns and so has every data row.
C17_ColumnCount ==
    \A i \in DOMAIN csv_lines :
        Len(csv_lines[i].cells) = 4 + 3 * Len(device_specs) + 2 * Len(groups)

\* The 'No CAN traffic' warnings printed by the step.
TrafficWarnings == { i \in DOMAIN console' : console'[i].kind = "no_traffic" }

\* C18: a 'no traffic' warning is printed only in a tick in which the traffic
\* watchdog is enabled, no_traffic_secs have elapsed since its previous
\* warning, and no data frame has been received so far, the tick's own frame
\* included; an error frame is not traffic: a due watchdog warns also in a
\* tick that receives one; once a data frame has been recorded no warning is
\* printed any more.
C18_NoTrafficOnlyWithoutFrames ==
    [][ /\ TrafficWarnings # { } =>
              /\ Cardinality(TrafficWarnings) = 1
              /\ pc = "loop"
              /\ ~IsDataFrame(msg')
              /\ total_frames' = 0
              /\ DOMAIN last_seen' = { }
              /\ args.no_traffic_secs > 0
              /\ (now' - last_traffic_warn) >= args.no_traffic_secs
        /\ (/\ CompleteTick
            /\ IsErrorFrame(msg')
            /\ DOMAIN last_seen = { }
            /\ args.no_traffic_secs > 0
            /\ (now' - last_traffic_warn) >= args.no_traffic_secs)
              => TrafficWarnings # { }
        /\ DOMAIN last_seen # { } => TrafficWarnings = { }
      ]_vars

\* A warning printed after the first instant of the run, in a tick that
\* received an error frame.
C18_Witness ==
    /\ IsErrorFrame(msg)
    /\ bus_error_count = 1
    /\ total_frames = 0
    /\ now > Epoch
    /\ last_traffic_warn = now
    /\ \E i \in DOMAIN console : console[i].kind = "no_traffic" /\ console[i].at = now

\* C19 as stated: a 'No CAN traffic' warning is printed only when at least
\* no_traffic_secs have passed since the loop started; none in the first tick.
C19_NotBeforeNoTrafficSecs ==
    [][ TrafficWarnings # { } => (now' - start_time) >= args.no_traffic_secs ]_vars

\* The 'Not connected' warnings printed by the step.
RioWarnings == { i \in DOMAIN console' : console'[i].kind = "no_rio" }

\* C20: in every complete tick each watchdog is evaluated on its own timer. The
\* traffic watchdog, when no_traffic_secs have elapsed since its last firing,
\* restarts its timer and warns if no data frame has ever been received;
\* otherwise its timer is left alone. The RIO watchdog, when no_rio_secs have
\* elapsed since its last firing, asks the sink, restarts its timer and warns
\* exactly when the sink answers not-connected; otherwise it does not ask,
\* does not warn and its timer is left alone.
C20_WatchdogsRepeat ==
    [][ CompleteTick =>
          /\ IF args.no_traffic_secs > 0
                /\ (now' - last_traffic_warn) >= args.no_traffic_secs
             THEN /\ last_traffic_warn' = now'
                  /\ (DOMAIN last_seen' = { }) <=> (TrafficWarnings # { })
             ELSE /\ last_traffic_warn' = last_traffic_warn
                  /\ TrafficWarnings = { }
          /\ IF args.no_rio_secs > 0 /\ (now' - last_rio_warn) >= args.no_rio_secs
             THEN /\ last_rio_warn' = now'
                  /\ (connected' = Some(FALSE)) <=> (RioWarnings # { })
             ELSE /\ last_rio_warn' = last_rio_warn
                  /\ connected' = None
                  /\ RioWarnings = { }
      ]_vars

\* The RIO watchdog warns in a tick in which the traffic watchdog, which fired
\* earlier in the run, is not due: the traffic timer keeps its earlier value.
C20_Witness ==
    /\ pc = "loop"
    /\ connected = Some(FALSE)
    /\ last_rio_warn = now
    /\ last_traffic_warn > 0
    /\ last_traffic_warn < now
    /\ DOMAIN last_seen = { }
    /\ \E i \in DOMAIN console : console[i].kind = "no_rio"
    /\ \A i \in DOMAIN console : console[i].kind # "no_traffic"

\* main has ended: it returned 0 or an exception left it.
MainEnded == pc \in { "returned", "raised" }

\* The final summaries printed by the last step.
FinalSummaries ==
    { i \in DOMAIN console :
        console[i].kind = "summary" /\ console[i].title = "Final Summary" }

C22_Phases ==
    /\ (log_handle = "None") <=> (last_log = 0)
    /\ (csv_lines # << >>) => log_handle = "open"
    /\ (~ MainEnded) => (bus_state = "open" /\ log_handle \in { "None", "open" })
    /\ MainEnded => /\ bus_state \in { "shutdown", "shutdown raised" }
                    /\ log_handle \in { "None", "closed", "close raised" }
                    /\ csv_lines = << >>

C22_Step ==
    /\ (log_handle' # log_handle) =>
           \/ log_handle = "None" /\ log_handle' = "open" /\ LogEvent
           \/ /\ log_handle = "open" /\ log_handle' \in { "closed", "close raised" }
              /\ pc = "finally" /\ MainEnded'
    /\ (bus_state' # bus_state) =>
           /\ bus_state = "open" /\ bus_state' \in { "shutdown", "shutdown raised" }
           /\ pc = "finally" /\ MainEnded'
    /\ LogEvent => (log_handle' = "open" /\ csv_lines' # << >> /\ pc = "loop")
    /\ (pc = "finally" /\ MainEnded') => bus_state' # bus_state

C22_LogAndBusLifecycle == []C22_Phases /\ [][C22_Step]_vars

\* The run wrote log rows, then ended: the file is closed, the bus shut down.
C22_Witness ==
    /\ MainEnded
    /\ last_log > 0 /\ csv_header_written
    /\ log_handle = "closed"
    /\ bus_state = "shutdown"

\* C23: a failure of the frame source or of the sink is not retried and not
\* masked: the loop is left at once, the final summary is printed and the
\* resources are released, and then the failure reaches the caller of main
\* (main does not return 0); a bus.shutdown() or close() that raises does not
\* replace the reason the loop was left.
C23_Outcome ==
    /\ (pc = "raised") <=> (MainEnded /\ exit_reason = "error")
    /\ (pc = "returned") => exit_reason \in { "break", "interrupt" }
    /\ (pc = "raised") => (Cardinality(FinalSummaries) = 1 /\ bus_state # "open"
                           /\ log_handle # "open")

C23_Step ==
    /\ (exit_reason # "none") => (exit_reason' = exit_reason)
    /\ (exit_reason = "none" /\ exit_reason' = "error") =>
           (pc = "loop" /\ pc' = "finally" /\ nt_writes' = None /\ csv_lines' = << >>)
    /\ (pc = "finally") =>
           /\ MainEnded'
           /\ msg' = msg /\ nt_writes' = None /\ csv_lines' = << >>
           /\ UNCHANGED << last_seen, msg_count, bus_error_count, total_frames,
                           last_publish, last_summary, last_log >>
    /\ (pc = "finally" /\ exit_reason = "error") => pc' = "raised"

C23_FailureReachesCaller == []C23_Outcome /\ [][C23_Step]_vars

\* A failure ended the loop after a log row was written, and both
\* bus.shutdown() and log_handle.close() raised: the failure still leaves main.
C23_Witness ==
    /\ pc = "raised"
    /\ exit_reason = "error"
    /\ bus_state = "shutdown raised"
    /\ log_handle = "close raised"
    /\ Cardinality(FinalSummaries) = 1

\* The per-device entries written by the last step, by key.
DevPublished == IF nt_writes = None THEN << >> ELSE Val(nt_writes).dev

\* C24: every publish writes, for each configured device, status = the
\* classification of the device at `now`, ageSec = now - last_seen or -1 when
\* it was never seen, lastSeen = its timestamp or -1, msgCount = its count
\* (0 when it has none), and busErrorCount = the current error counter.
C24_PublishedFields ==
    (nt_writes # None) =>
        /\ DOMAIN DevPublished = spec_keys
        /\ Val(nt_writes).busErrorCount = bus_error_count
        /\ \A k \in spec_keys :
              /\ DevPublished[k].status = StateOf(k)
              /\ DevPublished[k].ageSec =
                     (IF k \in DOMAIN last_seen THEN now - last_seen[k] ELSE -1)
              /\ DevPublished[k].lastSeen =
                     (IF k \in DOMAIN last_seen THEN last_seen[k] ELSE -1)
              /\ DevPublished[k].msgCount =
                     (IF k \in DOMAIN msg_count THEN msg_count[k] ELSE 0)

\* A publish with an OK, a STALE and a never-seen device after an error frame.
C24_Witness ==
    /\ nt_writes # None
    /\ bus_error_count = 1
    /\ \E a, b, c \in spec_keys :
          /\ DevPublished[a].status = "OK" /\ DevPublished[a].ageSec = 0
          /\ DevPublished[b].status = "STALE" /\ DevPublished[b].ageSec = 2
          /\ DevPublished[c].status = "MISSING" /\ DevPublished[c].ageSec = -1
          /\ DevPublished[c].msgCount = 0

\* C25 as stated: in a run with --quick-check that is neither interrupted
\* nor ended by a failure, the only step that prints a summary is the
\* quick-check tick, the first tick at least quick_wait after start; it
\* prints exactly one summary and leaves the loop.
C25_StatedStep ==
    (args.quick_check /\ exit_reason' \in { "none", "break" } /\ Summaries' # { }) =>
        /\ pc = "loop" /\ ~quick_done /\ quick_done'
        /\ Cardinality(Summaries') = 1
        /\ (now' - start_time) >= args.quick_wait
        /\ pc' = "finally"

C25_QuickCheckPrintsOneSummary == [][C25_StatedStep]_vars

\* C26: at every publish, for every legacy device id with a configured key,
\* the combined status is the classification of the most recent last_seen
\* among its keys: OK iff now minus it is at most timeout, STALE iff it exists
\* and now minus it exceeds timeout, MISSING iff no key has a record; and the
\* published `missing` flag is true exactly when that status is not OK.
C26_LegacyStatusOfBest ==
    \A id \in DOMAIN LegacyPublished :
        LET times == RecordedTimes(KeysOfId(id))
            status == LegacyPublished[id].status
        IN  /\ KeysOfId(id) # << >>
            /\ status \in { "OK", "STALE", "MISSING" }
            /\ (status = "MISSING") <=> (times = { })
            /\ (status = "OK") <=>
                   (times # { } /\ now - MaxOf(times) <= args.timeout)
            /\ (status = "STALE") <=>
                   (times # { } /\ now - MaxOf(times) > args.timeout)
            /\ LegacyPublished[id].missing = (status # "OK")

\* A publish of a device id two of whose keys were seen at different times,
\* both longer ago than timeout: STALE, flagged missing.
C26_Witness ==
    \E id \in DOMAIN LegacyPublished :
        /\ Cardinality(RecordedTimes(KeysOfId(id))) >= 2
        /\ LegacyPublished[id].status = "STALE"
        /\ LegacyPublished[id].missing
        /\ LegacyPublished[id].lastSeen = MaxOf(RecordedTimes(KeysOfId(id)))

\* The state is the one a pass of the loop has just produced.
AfterPass == pc \in { "loop", "finally" }

\* The column of the count cell of device_specs[i] in a CSV row.
CsvCountColumn(i) == 4 + 3 * (i - 1) + 1

\* C27: within a tick the received frame is recorded before any periodic
\* action runs, stamped with the `now` the actions use: in the tick in which a
\* data frame for key k is received, the publish, every summary and the CSV
\* row of that tick report k as OK with age 0 (whatever timeout >= 0) and with
\* the count that includes the frame.
C27_FrameRecordedBeforeActions ==
    (AfterPass /\ IsDataFrame(msg)) =>
        LET k == FrameKey(msg)
        IN  /\ k \in DOMAIN last_seen /\ last_seen[k] = now
            /\ k \in DOMAIN msg_count /\ msg_count[k] >= 1
            /\ \A i \in DOMAIN device_specs :
                  (KeyOf(device_specs[i]) = k) =>
                      /\ (nt_writes # None) =>
                             /\ DevPublished[k].status = "OK"
                             /\ DevPublished[k].ageSec = 0
                             /\ DevPublished[k].lastSeen = now
                             /\ DevPublished[k].msgCount = msg_count[k]
                      /\ \A j \in Summaries :
                             /\ console[j].devices[i].status = "OK"
                             /\ console[j].devices[i].age = Some(0)
                             /\ ~console[j].devices[i].is_missing
                             /\ console[j].devices[i].count = msg_count[k]
                      /\ \A j \in CsvRows :
                             /\ csv_lines[j].cells[CsvCountColumn(i)] = << "int", msg_count[k] >>
                             /\ csv_lines[j].cells[CsvCountColumn(i) + 1] = << "f3", 0 >>
                             /\ csv_lines[j].cells[CsvCountColumn(i) + 2] = << "str", "OK" >>

\* With timeout 0, the second frame of a configured device arrives in a tick
\* that publishes, prints a summary and writes a CSV row.
C27_Witness ==
    /\ AfterPass /\ IsDataFrame(msg)
    /\ FrameKey(msg) \in spec_keys
    /\ args.timeout = 0
    /\ msg_count[FrameKey(msg)] = 2
    /\ nt_writes # None /\ Summaries # { } /\ CsvRows # { }

\* The keys a record can exist for: the configured ones and those on the bus.
TrackedKeys ==
    spec_keys \cup { << d[1], d[2], d[5] >> : d \in { _decode_ext_id(a) : a \in BusArbIds } }

\* The step is a pass that received a data frame of key k.
FrameFor(k) == DataFrameTick /\ FrameKey(msg') = k

\* The transitions of the freshness state of key k in one step.
C28_Transitions(k) ==
    /\ (StateOf(k) = "MISSING") =>
           /\ StateOf(k)' \in { "MISSING", "OK" }
           /\ (StateOf(k)' = "OK") <=> FrameFor(k)
    /\ (StateOf(k) = "OK") =>
           /\ StateOf(k)' \in { "OK", "STALE" }
           /\ (StateOf(k)' = "STALE") => (~FrameFor(k) /\ now' > now)
    /\ (StateOf(k) = "STALE") =>
           /\ StateOf(k)' \in { "STALE", "OK" }
           /\ (StateOf(k)' = "OK") <=> FrameFor(k)
    /\ (k \in DOMAIN last_seen) => (k \in DOMAIN last_seen')

\* C28: with a clock that is never set back, the freshness state of a device
\* changes from MISSING only to OK and only by a frame of that device, from OK
\* to STALE only by time passing without a frame of that device, from STALE to
\* OK only by a frame of that device, and never back to MISSING.
C28_FreshnessTransitions == [][\A k \in TrackedKeys : C28_Transitions(k)]_vars

\* A device seen before, silent for longer than timeout, was just seen again
\* ("device seen" is printed, with its second frame counted), while another
\* configured device is still MISSING.
C28_Witness ==
    /\ AfterPass /\ IsDataFrame(msg)
    /\ StateOf(FrameKey(msg)) = "OK"
    /\ \E i \in DOMAIN console :
          /\ console[i].kind = "device_seen"
          /\ console[i].key = FrameKey(msg)
          /\ console[i].count = 2
    /\ \E k \in spec_keys : StateOf(k) = "MISSING"

\* Key k has been seen, the loop is running, and the modelled time reaches
\* beyond the instant at which its record becomes older than timeout.
SeenAndRunning(k) ==
    /\ pc = "loop"
    /\ k \in DOMAIN last_seen
    /\ last_seen[k] + args.timeout < Epoch + MaxElapsed

\* The keys the frames on the bus decode to: the keys that can be seen.
BusKeys == { << d[1], d[2], d[5] >> : d \in { _decode_ext_id(a) : a \in BusArbIds } }

\* The pass that produced the state received a data frame of key k.
JustFramed(k) == AfterPass /\ IsDataFrame(msg) /\ FrameKey(msg) = k

\* The number of keys of group g that are not OK at `now`.
NotOkInGroup(g) ==
    Cardinality({ p \in DOMAIN groups[g].keys : StateOf(groups[g].keys[p]) # "OK" })

\* What the outputs of a state say about a configured key that is STALE:
\* the publish and every summary report STALE, and every summary counts it
\* among the missing of each group.
C29_Evaluations ==
    \A k \in spec_keys :
        (StateOf(k) = "STALE") =>
            /\ (nt_writes # None) => DevPublished[k].status = "STALE"
            /\ \A j \in Summaries :
                  /\ \A i \in DOMAIN device_specs :
                        (KeyOf(device_specs[i]) = k) =>
                            /\ console[j].devices[i].status = "STALE"
                            /\ console[j].devices[i].is_missing
                            /\ console[j].devices[i].count = msg_count[k]
                  /\ \A g \in DOMAIN groups :
                        console[j].groups[g].missing = NotOkInGroup(g)

\* A STALE key without a frame of its own stays STALE and keeps its count.
C29_StaysStale ==
    \A k \in TrackedKeys :
        (StateOf(k) = "STALE" /\ ~FrameFor(k)) =>
            /\ StateOf(k)' = "STALE"
            /\ msg_count'[k] = msg_count[k]

\* C29: a device that has been seen and then sends no further frame, while the
\* loop keeps making passes and the clock keeps advancing, is eventually
\* STALE (every state in which it is seen leads to one in which it is STALE,
\* or a frame of it has just arrived, or the loop has ended); from then on
\* every publish and summary reports it STALE and counts it as missing in its
\* groups, with its message count unchanged, until a frame of that device
\* arrives.
C29_SilentDeviceBecomesStale ==
    /\ \A k \in BusKeys :
          SeenAndRunning(k) ~> (StateOf(k) = "STALE" \/ JustFramed(k) \/ pc # "loop")
    /\ [][C29_StaysStale]_vars
    /\ []C29_Evaluations

\* A pass without a frame publishes and prints a summary while a configured
\* device that was seen, a member of a group, is STALE.
C29_Witness ==
    /\ AfterPass /\ msg = None
    /\ nt_writes # None /\ Summaries # { }
    /\ \E k \in spec_keys :
          /\ StateOf(k) = "STALE" /\ msg_count[k] >= 1
          /\ DevPublished[k].status = "STALE"
          /\ \E g \in DOMAIN groups : \E p \in DOMAIN groups[g].keys :
                groups[g].keys[p] = k

====
